---- MODULE Spec2Model ----
(***************************************************************************)
(* A model of the SaucerSwap V2 python SDK: the address codec and path     *)
(* encoder of saucerswap_v2_client.py, the swap state machine of           *)
(* SaucerSwapV2Engine (saucerswap_v2_engine.py) and of HbarSwapEngine      *)
(* (hbar_swap_engine.py), and the ledger the engines talk to.              *)
(*                                                                         *)
(* Python integers are unbounded and Python floats are IEEE-754 binary64.  *)
(* Both are modelled exactly: an integer is a little-endian sequence of    *)
(* limbs (base 2^15, no leading zero limb, zero is <<>>), a non-negative   *)
(* float is a record [m, e] that stands for m * 2^e with a significand of  *)
(* at most 53 bits, and every float operation rounds to nearest, ties to   *)
(* even, as the hardware does.                                             *)
(***************************************************************************)
EXTENDS Integers, Sequences, FiniteSets, TLC

(***************************************************************************)
(* Unbounded naturals (Python int).                                        *)
(***************************************************************************)
LimbBits == 15
Base == 2^15

RECURSIVE Pow2(_)
Pow2(n) == IF n = 0 THEN 1 ELSE 2 * Pow2(n - 1)

RECURSIVE BNorm(_)
BNorm(a) ==
    IF a = <<>> THEN <<>>
    ELSE IF a[Len(a)] = 0 THEN BNorm(SubSeq(a, 1, Len(a) - 1))
    ELSE a

RECURSIVE BFromInt(_)
BFromInt(n) == IF n = 0 THEN <<>> ELSE <<n % Base>> \o BFromInt(n \div Base)

BLimb(a, i) == IF i >= 1 /\ i <= Len(a) THEN a[i] ELSE 0

Max(x, y) == IF x >= y THEN x ELSE y
Min(x, y) == IF x <= y THEN x ELSE y

RECURSIVE BCmpFrom(_, _, _)
BCmpFrom(a, b, i) ==
    IF i = 0 THEN 0
    ELSE IF BLimb(a, i) < BLimb(b, i) THEN -1
    ELSE IF BLimb(a, i) > BLimb(b, i) THEN 1
    ELSE BCmpFrom(a, b, i - 1)

\* -1, 0 or 1 as a < b, a = b, a > b
BCmp(a, b) == BCmpFrom(a, b, Max(Len(a), Len(b)))
BLt(a, b) == BCmp(a, b) = -1
BLeq(a, b) == BCmp(a, b) # 1

RECURSIVE BAddFrom(_, _, _, _)
BAddFrom(a, b, i, carry) ==
    IF i > Max(Len(a), Len(b))
    THEN (IF carry = 0 THEN <<>> ELSE <<carry>>)
    ELSE LET s == BLimb(a, i) + BLimb(b, i) + carry
         IN  <<s % Base>> \o BAddFrom(a, b, i + 1, s \div Base)

BAdd(a, b) == BAddFrom(a, b, 1, 0)

RECURSIVE BSubFrom(_, _, _, _)
BSubFrom(a, b, i, borrow) ==
    IF i > Len(a) THEN <<>>
    ELSE LET d == BLimb(a, i) - BLimb(b, i) - borrow
         IN  IF d < 0 THEN <<d + Base>> \o BSubFrom(a, b, i + 1, 1)
             ELSE <<d>> \o BSubFrom(a, b, i + 1, 0)

\* a - b for a >= b
BSub(a, b) == BNorm(BSubFrom(a, b, 1, 0))

RECURSIVE BMulSmallFrom(_, _, _, _)
BMulSmallFrom(a, k, i, carry) ==
    IF i > Len(a)
    THEN (IF carry = 0 THEN <<>> ELSE <<carry>>)
    ELSE LET p == a[i] * k + carry
         IN  <<p % Base>> \o BMulSmallFrom(a, k, i + 1, p \div Base)

\* a * k for 0 <= k < Base
BMulSmall(a, k) == BNorm(BMulSmallFrom(a, k, 1, 0))

BShlLimbs(a, n) == IF a = <<>> THEN <<>> ELSE [i \in 1..n |-> 0] \o a

RECURSIVE BMulFrom(_, _, _)
BMulFrom(a, b, j) ==
    IF j > Len(b) THEN <<>>
    ELSE BAdd(BShlLimbs(BMulSmall(a, b[j]), j - 1), BMulFrom(a, b, j + 1))

BMul(a, b) == BMulFrom(a, b, 1)

RECURSIVE SmallBitLen(_)
SmallBitLen(n) == IF n = 0 THEN 0 ELSE 1 + SmallBitLen(n \div 2)

BitLen(a) == IF a = <<>> THEN 0 ELSE (Len(a) - 1) * LimbBits + SmallBitLen(a[Len(a)])

\* a * 2^n
BShl(a, n) == BShlLimbs(BMulSmall(a, Pow2(n % LimbBits)), n \div LimbBits)

\* floor(a / 2^n)
BShr(a, n) ==
    LET q == n \div LimbBits
        r == n % LimbBits
    IN  IF q >= Len(a) THEN <<>>
        ELSE BNorm([i \in 1..(Len(a) - q) |->
                 (a[i + q] \div Pow2(r)) + (BLimb(a, i + q + 1) % Pow2(r)) * Pow2(LimbBits - r)])

BBit(a, i) == (BLimb(a, (i \div LimbBits) + 1) \div Pow2(i % LimbBits)) % 2

\* a mod 2^n = 0
BLowZero(a, n) == BShl(BShr(a, n), n) = a

RECURSIVE BDivSmallFrom(_, _, _, _)
BDivSmallFrom(a, d, i, rem) ==
    IF i = 0 THEN [q |-> <<>>, r |-> rem]
    ELSE LET cur  == rem * Base + a[i]
             rest == BDivSmallFrom(a, d, i - 1, cur % d)
         IN  [q |-> rest.q \o <<cur \div d>>, r |-> rest.r]

\* [q, r] with a = q * d + r, for 0 < d < Base
BDivSmall(a, d) ==
    LET res == BDivSmallFrom(a, d, Len(a), 0)
    IN  [q |-> BNorm(res.q), r |-> res.r]

RECURSIVE BPow10(_)
BPow10(n) == IF n = 0 THEN <<1>> ELSE BMulSmall(BPow10(n - 1), 10)

(***************************************************************************)
(* Non-negative IEEE-754 binary64 values (Python float).                   *)
(***************************************************************************)
MantDig == 53

\* m * 2^e (plus a non-zero residue below m's last bit when sticky) rounded
\* to MantDig significant bits, to nearest, ties to even
FRound(m, e, sticky) ==
    LET n == BitLen(m)
    IN  IF n <= MantDig THEN [m |-> m, e |-> e]
        ELSE LET k    == n - MantDig
                 q    == BShr(m, k)
                 half == BBit(m, k - 1) = 1
                 rest == sticky \/ ~BLowZero(m, k - 1)
                 up   == half /\ (rest \/ BBit(q, 0) = 1)
             IN  [m |-> IF up THEN BAdd(q, <<1>>) ELSE q, e |-> e + k]

\* float(n) for a Python int n
FFromBig(a) == FRound(a, 0, FALSE)

\* x * y
FMul(x, y) == FRound(BMul(x.m, y.m), x.e + y.e, FALSE)

\* x - y for x >= y
FSub(x, y) ==
    LET e == Min(x.e, y.e)
    IN  FRound(BSub(BShl(x.m, x.e - e), BShl(y.m, y.e - e)), e, FALSE)

\* x / d for a Python int 0 < d < Base (d is exact as a float)
FDivSmall(x, d) ==
    IF x.m = <<>> THEN x
    ELSE LET sh == Max(0, MantDig + 2 + SmallBitLen(d) - BitLen(x.m))
             dv == BDivSmall(BShl(x.m, sh), d)
         IN  FRound(dv.q, x.e - sh, dv.r # 0)

\* int(x): truncation
FTrunc(x) == IF x.e >= 0 THEN BShl(x.m, x.e) ELSE BShr(x.m, -x.e)

\* the float a decimal literal num/den denotes (the nearest binary64)
PyFloat(num, den) == FDivSmall(FFromBig(BFromInt(num)), den)

(***************************************************************************)
(* Strings are sequences of one-character strings, bytes are 0..255.       *)
(***************************************************************************)
Digits == <<"0", "1", "2", "3", "4", "5", "6", "7", "8", "9">>
HexLower == Digits \o <<"a", "b", "c", "d", "e", "f">>
HexUpper == Digits \o <<"A", "B", "C", "D", "E", "F">>

IsDigit(c) == \E i \in 1..10 : Digits[i] = c
IsHexChar(c) == \E i \in 1..16 : HexLower[i] = c \/ HexUpper[i] = c
\* the value 0..15 of a hex character of either case
HexVal(c) == (CHOOSE i \in 1..16 : HexLower[i] = c \/ HexUpper[i] = c) - 1
DigitVal(c) == (CHOOSE i \in 1..10 : Digits[i] = c) - 1
\* str.lower() and str.upper() on one hex character
LowerChar(c) == IF IsHexChar(c) THEN HexLower[HexVal(c) + 1] ELSE c
UpperChar(c) == IF IsHexChar(c) THEN HexUpper[HexVal(c) + 1] ELSE c
IsLetter(c) == IsHexChar(c) /\ HexVal(c) >= 10

RECURSIVE DecStr(_)
\* str(n) for n >= 0
DecStr(n) == IF n < 10 THEN <<Digits[n + 1]>> ELSE DecStr(n \div 10) \o <<Digits[(n % 10) + 1]>>

RECURSIVE HexStr(_)
\* format(n, "x") for n >= 0
HexStr(n) == IF n < 16 THEN <<HexLower[n + 1]>> ELSE HexStr(n \div 16) \o <<HexLower[(n % 16) + 1]>>

\* format(n, "040x"): zero-padded on the left to 40 characters, longer if n needs it
Hex040(n) ==
    LET h == HexStr(n)
    IN  IF Len(h) >= 40 THEN h ELSE [i \in 1..(40 - Len(h)) |-> "0"] \o h

RECURSIVE SplitFrom(_, _, _, _)
SplitFrom(s, sep, i, cur) ==
    IF i > Len(s) THEN <<cur>>
    ELSE IF s[i] = sep THEN <<cur>> \o SplitFrom(s, sep, i + 1, <<>>)
    ELSE SplitFrom(s, sep, i + 1, Append(cur, s[i]))

\* str.split(sep) for a one-character separator
Split(s, sep) == SplitFrom(s, sep, 1, <<>>)

RECURSIVE Join(_, _)
\* sep.join(parts)
Join(parts, sep) ==
    IF parts = <<>> THEN <<>>
    ELSE IF Len(parts) = 1 THEN parts[1]
    ELSE parts[1] \o <<sep>> \o Join(Tail(parts), sep)

RECURSIVE ParseDigits(_, _)
ParseDigits(p, acc) == IF p = <<>> THEN acc ELSE ParseDigits(Tail(p), acc * 10 + DigitVal(p[1]))

\* what int(p) accepts among the strings of the model: a non-empty run of digits
IsDecimal(p) == p # <<>> /\ \A i \in 1..Len(p) : IsDigit(p[i])

StartsWith0x(s) == Len(s) >= 2 /\ s[1] = "0" /\ s[2] = "x"

RECURSIVE StripZeros(_)
StripZeros(h) == IF h # <<>> /\ h[1] = "0" THEN StripZeros(Tail(h)) ELSE h

(***************************************************************************)
(* Web3.to_checksum_address (EIP-55): the address in lower case, with the  *)
(* letters upper-cased where the keccak-256 digest of the lower-case hex   *)
(* has a nibble >= 8.  The digest is tabulated for the addresses of the    *)
(* model, keyed by the hex digits without their leading zeros; the value   *)
(* is the set of positions (1..40) that are upper-cased.                   *)
(***************************************************************************)
EIP55Upper ==
    (<<"a">> :> {40}) @@ (<<"b">> :> {}) @@ (<<"c">> :> {40}) @@
    (<<"a", "b">> :> {39, 40}) @@ (<<"f", "f">> :> {}) @@
    (<<"6", "f", "8", "9", "a">> :> {}) @@
    (<<"1", "6", "3", "b", "5", "a">> :> {38}) @@
    (<<"3", "c", "4", "3", "7", "a">> :> {40}) @@
    (<<"3", "c", "4", "3", "7", "0">> :> {}) @@
    (<<"3", "c", "4", "3", "8", "0">> :> {}) @@
    (<<"9", "9", "d", "9", "2", "5">> :> {})

Ok(v) == [ok |-> TRUE, val |-> v]
Raise(exc, msg) == [ok |-> FALSE, exc |-> exc, msg |-> msg]

\* to_checksum_address of a string that starts with "0x"
to_checksum_address(s) ==
    LET h == SubSeq(s, 3, Len(s))
    IN  IF Len(h) # 40 \/ \E i \in 1..Len(h) : ~IsHexChar(h[i])
        THEN Raise("ValueError", "Unknown format")
        ELSE LET low == [i \in 1..40 |-> LowerChar(h[i])]
                 up  == IF \E i \in 1..40 : IsLetter(low[i])
                        THEN EIP55Upper[StripZeros(low)] ELSE {}
             IN  Ok(<<"0", "x">> \o [i \in 1..40 |-> IF i \in up THEN UpperChar(low[i]) ELSE low[i]])

\* a variant that leaves the dotted path without its checksum casing
hedera_id_to_evm_uncased(hedera_id) ==
    IF StartsWith0x(hedera_id) THEN to_checksum_address(hedera_id)
    ELSE LET parts == Split(hedera_id, ".")
         IN  IF Len(parts) # 3 THEN Raise("ValueError", "Invalid Hedera ID format")
             ELSE IF ~IsDecimal(parts[3]) THEN Raise("ValueError", "invalid literal for int()")
             ELSE Ok(<<"0", "x">> \o Hex040(ParseDigits(parts[3], 0)))

\* a variant that takes the number from the realm part
hedera_id_to_evm_realm(hedera_id) ==
    IF StartsWith0x(hedera_id) THEN to_checksum_address(hedera_id)
    ELSE LET parts == Split(hedera_id, ".")
         IN  IF Len(parts) # 3 THEN Raise("ValueError", "Invalid Hedera ID format")
             ELSE IF ~IsDecimal(parts[2]) THEN Raise("ValueError", "invalid literal for int()")
             ELSE to_checksum_address(<<"0", "x">> \o Hex040(ParseDigits(parts[2], 0)))

hedera_id_to_evm(hedera_id) ==
    IF StartsWith0x(hedera_id) THEN to_checksum_address(hedera_id)
    ELSE LET parts == Split(hedera_id, ".")
         IN  IF Len(parts) # 3 THEN Raise("ValueError", "Invalid Hedera ID format")
             ELSE IF ~IsDecimal(parts[3]) THEN Raise("ValueError", "invalid literal for int()")
             ELSE to_checksum_address(<<"0", "x">> \o Hex040(ParseDigits(parts[3], 0)))

\* bytes.fromhex of an even number of hex characters
FromHex(h) == [i \in 1..(Len(h) \div 2) |-> 16 * HexVal(h[2 * i - 1]) + HexVal(h[2 * i])]

\* a variant that writes the fee little-endian
FeeBytesLittle(fee) ==
    IF fee < 0 \/ fee >= 2^24 THEN Raise("OverflowError", "int too big to convert")
    ELSE Ok(<<fee % 256, (fee \div 256) % 256, fee \div 65536>>)

\* fee.to_bytes(3, "big")
FeeBytes(fee) ==
    IF fee < 0 \/ fee >= 2^24 THEN Raise("OverflowError", "int too big to convert")
    ELSE Ok(<<fee \div 65536, (fee \div 256) % 256, fee % 256>>)

RECURSIVE EncodeFrom(_, _, _, _)
\* the loop of encode_path from token i on, path being what is built so far
EncodeFrom(tokens, fees, i, path) ==
    IF i > Len(tokens) THEN Ok(path)
    ELSE LET a == hedera_id_to_evm(tokens[i])
         IN  IF ~a.ok THEN a
             ELSE LET withToken == path \o FromHex(SubSeq(a.val, 3, Len(a.val)))
                  IN  IF i - 1 < Len(fees)
                      THEN LET f == FeeBytes(fees[i])
                           IN  IF ~f.ok THEN f
                               ELSE EncodeFrom(tokens, fees, i + 1, withToken \o f.val)
                      ELSE EncodeFrom(tokens, fees, i + 1, withToken)

\* a variant without the fee-count check
encode_path_unchecked(tokens, fees) == EncodeFrom(tokens, fees, 1, <<>>)

encode_path(tokens, fees) ==
    IF Len(fees) # Len(tokens) - 1 THEN Raise("ValueError", "Expected fees")
    ELSE EncodeFrom(tokens, fees, 1, <<>>)

(***************************************************************************)
(* Configuration: v2_tokens.py, the contract table of the client, and the  *)
(* literals of the two engines.                                            *)
(***************************************************************************)
DottedId(num) == <<"0", ".", "0", ".">> \o DecStr(num)

WHBAR_NUM == 1456986
USDC_NUM == 456858
WBTC_NUM == 10082597
ROUTER_NUM == 3949434
WHBAR_ID == DottedId(WHBAR_NUM)
USDC_ID == DottedId(USDC_NUM)
WBTC_ID == DottedId(WBTC_NUM)
FEE_MEDIUM == 500
FEE_STABLE == 1500
DEFAULT_FEE == FEE_STABLE
FEE_1500 == 1500

HBAR == <<"H", "B", "A", "R">>

LowerLetters == <<"a", "b", "c", "d", "e", "f", "g", "h", "i", "j", "k", "l", "m",
                  "n", "o", "p", "q", "r", "s", "t", "u", "v", "w", "x", "y", "z">>
UpperLetters == <<"A", "B", "C", "D", "E", "F", "G", "H", "I", "J", "K", "L", "M",
                  "N", "O", "P", "Q", "R", "S", "T", "U", "V", "W", "X", "Y", "Z">>

\* str.upper()
Upper(s) ==
    [i \in 1..Len(s) |->
        IF \E k \in 1..26 : LowerLetters[k] = s[i]
        THEN UpperLetters[CHOOSE k \in 1..26 : LowerLetters[k] = s[i]]
        ELSE s[i]]

\* SaucerSwapV2.router_address and SaucerSwapV2Engine.whbar
router_address == hedera_id_to_evm(DottedId(ROUTER_NUM)).val
whbar == hedera_id_to_evm(WHBAR_ID).val
\* the account of the signing credential
eoa == <<"e", "o", "a">>

\* the token table of hbar_swap_engine.py: TOKENS[sym].evm_address
TokenEvmAddress(sym) ==
    IF sym = "WHBAR" THEN hedera_id_to_evm(WHBAR_ID).val ELSE hedera_id_to_evm(USDC_ID).val

GRACE_MS == 600000
HBAR_GRACE_S == 120
RECEIPT_TIMEOUT_S == 120
PROPAGATION_SLEEP_S == 5
APPROVE_MULTIPLE == 10
NATIVE_DECIMALS == 18
WHBAR_DECIMALS == 8
USDC_DECIMALS == 6

MAX_UINT256 == BSub(BShl(<<1>>, 256), <<1>>)

(***************************************************************************)
(* The arithmetic of the engines.  A human amount and a slippage are the   *)
(* floats their decimal literals [num, den] denote.                        *)
(***************************************************************************)
Lit(d) == PyFloat(d.num, d.den)

\* int(amount * 10 ** decimals)
RawAmount(amount, decimals) == FTrunc(FMul(Lit(amount), FFromBig(BPow10(decimals))))

\* SaucerSwapV2Engine.swap: int(raw_amount_out_expected * (1 - slippage))
MinOut(expected, slippage) ==
    FTrunc(FMul(FFromBig(expected), FSub(Lit([num |-> 1, den |-> 1]), Lit(slippage))))

\* HbarSwapEngine: int(expected_out * (100 - slippage_percent) / 100)
HbarMinOut(expected, slippage_percent) ==
    FTrunc(FDivSmall(FMul(FFromBig(expected),
                          FSub(Lit([num |-> 100, den |-> 1]), Lit(slippage_percent))), 100))

\* time.time(): the clock (integer milliseconds since the epoch) in seconds
TimeTime(clk) == FDivSmall(FFromBig(clk), 1000)

\* int(time.time() * 1000)
NowMs(clk) == FTrunc(FMul(TimeTime(clk), FFromBig(BFromInt(1000))))

\* int(time.time())
NowSec(clk) == FTrunc(TimeTime(clk))

\* a variant that reads the clock in seconds
DeadlineInSeconds(clk) == BAdd(NowSec(clk), BFromInt(GRACE_MS))

\* SaucerSwapV2Engine.swap: int(time.time() * 1000) + 600000
Deadline(clk) == BAdd(NowMs(clk), BFromInt(GRACE_MS))

\* HbarSwapEngine: int(time.time()) + 120
HbarDeadline(clk) == BAdd(NowSec(clk), BFromInt(HBAR_GRACE_S))

\* a variant with the comparison turned round
NeedsApprovalInverted(allowance, raw_amount_in) == BLeq(raw_amount_in, allowance)

\* SaucerSwapV2Engine.swap: if allowance < raw_amount_in
NeedsApproval(allowance, raw_amount_in) == BLt(allowance, raw_amount_in)

\* HbarSwapEngine.ensure_approval: if allowance >= amount: return False
AlreadyApproved(allowance, amount) == BLeq(amount, allowance)

\* a variant that approves exactly what the swap needs
ApproveAmountExact(raw_amount_in) == raw_amount_in

\* SaucerSwapV2Engine.swap: approve(router, raw_amount_in * 10)
ApproveAmount(raw_amount_in) == BMulSmall(raw_amount_in, APPROVE_MULTIPLE)

(***************************************************************************)
(* Bounds of the model.                                                    *)
(***************************************************************************)
\* the clock when the engine is used: seconds and milliseconds since the epoch
ClockStartSec == 1762300800
ClockStartMs == 257
\* how often time passes between computing a deadline and broadcasting
MaxTicks == 2
\* a quick and a stalled RPC round trip, in milliseconds
TickShort == 250
TickLong == 600001
\* the longest token list given to encode_path, the most parts of an identifier
MaxTokens == 3
MaxParts == 4

Delays == {TickShort, TickLong}

Dec(n, d) == [num |-> n, den |-> d]
\* human amounts, slippage fractions and slippage percents given by callers
Amounts == {Dec(1, 2), Dec(1, 1)}
Slippages == {Dec(0, 1), Dec(1, 100)}
SlippagePercents == {Dec(0, 1), Dec(2, 1)}
\* what the quoter may answer: amountOut in raw units
Big53 == BAdd(BShl(<<1>>, MantDig), <<3>>)
QuoteOuts == {<<>>, BFromInt(48707), Big53}
\* the router's allowance before the invocation
Allowances == {<<>>, BFromInt(500000), MAX_UINT256}
\* token arguments of SaucerSwapV2Engine.swap
TokenArgs == {HBAR, <<"h", "b", "a", "r">>, USDC_ID, WBTC_ID, <<"0", ".", "0">>}

VARIABLES
    clock,      \* milliseconds since the epoch, a Python int
    allowance,  \* ledger: token address -> what the router may move for eoa
    nonce,      \* ledger: transactions of eoa that are mined
    txs,        \* ledger: every transaction broadcast, in order; its hash is its index
    pc,         \* where the running invocation stands
    call,       \* the arguments and locals of the running invocation
    result,     \* the SwapResult returned, once pc = "done"
    ticks,      \* clock steps taken between deadline and broadcast
    cin,        \* codec: the input of the pure function under test
    cout,       \* codec: its result
    cout2       \* codec: hedera_id_to_evm applied to its own result

vars == <<clock, allowance, nonce, txs, pc, call, result, ticks, cin, cout, cout2>>
engineVars == <<clock, allowance, nonce, txs, pc, call, result, ticks>>
codecVars == <<cin, cout, cout2>>

Nothing == [ok |-> FALSE, exc |-> "", msg |-> "not computed"]

NoCall ==
    [op |-> "", token_in_id |-> <<>>, token_out_id |-> <<>>, amount |-> Dec(0, 1),
     decimals_in |-> 0, decimals_out |-> 0, fee |-> 0, slippage |-> Dec(0, 1),
     is_hbar_in |-> FALSE, is_hbar_out |-> FALSE, addr_in |-> <<>>, addr_out |-> <<>>,
     raw_amount_in |-> <<>>, amount_in_wei |-> <<>>, expected_out |-> <<>>, min_out |-> <<>>,
     quote_calls |-> 0, quote_path |-> <<>>,
     allowance_reads |-> 0, allowance_seen |-> <<>>, approval |-> "none", approve_hash |-> 0,
     path_bytes |-> <<>>, deadline |-> <<>>, deadline_clock |-> <<>>,
     tx |-> [phase |-> "none"], swap_hash |-> 0]

NoResult == [success |-> FALSE, tx_hash |-> 0, amount_in |-> Dec(0, 1),
             amount_out |-> [raw |-> <<>>, decimals |-> 0], gas_used |-> 0, error |-> ""]

\* SwapResult(success=False, error=str(e))
Failure(e) == [NoResult EXCEPT !.error = e]

\* the tokens whose allowance the ledger tracks
TokenAddrs == {hedera_id_to_evm(USDC_ID).val, hedera_id_to_evm(WBTC_ID).val}

EngineInit ==
    /\ clock = BAdd(BMulSmall(BFromInt(ClockStartSec), 1000), BFromInt(ClockStartMs))
    /\ allowance \in [TokenAddrs -> Allowances]
    /\ nonce = 0
    /\ txs = <<>>
    /\ pc = "idle"
    /\ call = NoCall
    /\ result = NoResult
    /\ ticks = 0

CodecIdle ==
    /\ cin = [op |-> "none"]
    /\ cout = Nothing
    /\ cout2 = Nothing

Init == EngineInit /\ CodecIdle

(***************************************************************************)
(* The transactions the engines assemble.                                  *)
(***************************************************************************)
ExactInputParams(c, recipient) ==
    [path |-> c.path_bytes, recipient |-> recipient, deadline |-> c.deadline,
     amountIn |-> c.raw_amount_in, amountOutMinimum |-> c.min_out]

\* a variant that sends the native-out swap alone, the unwrap left to a second transaction
SwapTxUnbatched(c, n) ==
    IF c.is_hbar_out
    THEN [phase |-> "swap", fn |-> "exactInput",
          args |-> <<ExactInputParams(c, router_address)>>, value |-> <<>>, nonce |-> n]
    ELSE IF c.is_hbar_in
    THEN [phase |-> "swap", fn |-> "exactInput", args |-> <<ExactInputParams(c, eoa)>>,
          value |-> RawAmount(c.amount, NATIVE_DECIMALS), nonce |-> n]
    ELSE [phase |-> "swap", fn |-> "exactInput", args |-> <<ExactInputParams(c, eoa)>>,
          value |-> <<>>, nonce |-> n]

\* a variant whose batched swap pays the caller instead of the router
SwapTxToCaller(c, n) ==
    IF c.is_hbar_out
    THEN [phase |-> "swap", fn |-> "multicall",
          args |-> << [fn |-> "exactInput", args |-> <<ExactInputParams(c, eoa)>>],
                      [fn |-> "unwrapWHBAR", args |-> << <<>>, eoa >>] >>,
          value |-> <<>>, nonce |-> n]
    ELSE IF c.is_hbar_in
    THEN [phase |-> "swap", fn |-> "exactInput", args |-> <<ExactInputParams(c, eoa)>>,
          value |-> RawAmount(c.amount, NATIVE_DECIMALS), nonce |-> n]
    ELSE [phase |-> "swap", fn |-> "exactInput", args |-> <<ExactInputParams(c, eoa)>>,
          value |-> <<>>, nonce |-> n]

\* SaucerSwapV2Engine.swap, step 6: the transaction for the shape of the swap
SwapTx(c, n) ==
    IF c.is_hbar_out
    THEN [phase |-> "swap", fn |-> "multicall",
          args |-> << [fn |-> "exactInput", args |-> <<ExactInputParams(c, router_address)>>],
                      [fn |-> "unwrapWHBAR", args |-> << <<>>, eoa >>] >>,
          value |-> <<>>, nonce |-> n]
    ELSE IF c.is_hbar_in
    THEN [phase |-> "swap", fn |-> "exactInput", args |-> <<ExactInputParams(c, eoa)>>,
          value |-> RawAmount(c.amount, NATIVE_DECIMALS), nonce |-> n]
    ELSE [phase |-> "swap", fn |-> "exactInput", args |-> <<ExactInputParams(c, eoa)>>,
          value |-> <<>>, nonce |-> n]

\* HbarSwapEngine: exactInputSingle(swap_params), with the native value for HBAR in
HbarSwapTx(c, n) ==
    [phase |-> "swap", fn |-> "exactInputSingle",
     args |-> << [tokenIn |-> c.addr_in, tokenOut |-> c.addr_out, fee |-> FEE_1500,
                  recipient |-> eoa, deadline |-> c.deadline, amountIn |-> c.raw_amount_in,
                  amountOutMinimum |-> c.min_out, sqrtPriceLimitX96 |-> 0] >>,
     value |-> IF c.op = "swap_hbar_for_usdc" THEN c.amount_in_wei ELSE <<>>,
     nonce |-> n]

\* approve(router, amount) on the input token
ApproveTx(c, n) ==
    [phase |-> "approve", fn |-> "approve",
     args |-> << router_address,
                 IF c.op = "swap" THEN ApproveAmount(c.raw_amount_in) ELSE MAX_UINT256 >>,
     token |-> c.addr_in, value |-> <<>>, nonce |-> n]

\* the parameter struct of the swap call a swap transaction carries
SwapParams(tx) == IF tx.fn = "multicall" THEN tx.args[1].args[1] ELSE tx.args[1]

Broadcast(tx) == Append(txs, [tx |-> tx, sent_clock |-> clock, mined |-> FALSE, status |-> 0, gas_used |-> 0])


(***************************************************************************)
(* The swap of either engine, one action per step between two calls to     *)
(* the node.  An exception anywhere inside the try block ends the          *)
(* invocation with SwapResult(success=False, error=str(e)).                *)
(***************************************************************************)
\* a variant in which the exception leaves the operation instead of being returned
FailRaises(e) ==
    /\ pc' = "raised"
    /\ UNCHANGED result

Fail(e) ==
    /\ pc' = "done"
    /\ result' = Failure(e)

\* the decimals a caller passes for a token: 8 for HBAR and WBTC, 6 for USDC
DecimalsOf(token) == IF token = USDC_ID THEN USDC_DECIMALS ELSE WHBAR_DECIMALS

\* SaucerSwapV2Engine.swap: the flags, the addresses and the raw input amount, for
\* arguments drawn from the given sets
V2StartWith(tokensIn, tokensOut, amounts, slippages) ==
    /\ pc = "idle"
    /\ \E tin \in tokensIn, tout \in tokensOut, amt \in amounts, slip \in slippages :
         LET is_in  == Upper(tin) = HBAR
             is_out == Upper(tout) = HBAR
             a_in   == IF is_in THEN Ok(whbar) ELSE hedera_id_to_evm(tin)
             a_out  == IF is_out THEN Ok(whbar) ELSE hedera_id_to_evm(tout)
             args   == [NoCall EXCEPT !.op = "swap", !.token_in_id = tin, !.token_out_id = tout,
                                      !.amount = amt, !.decimals_in = DecimalsOf(tin),
                                      !.decimals_out = DecimalsOf(tout), !.fee = DEFAULT_FEE,
                                      !.slippage = slip, !.is_hbar_in = is_in,
                                      !.is_hbar_out = is_out]
         IN  IF ~a_in.ok \/ ~a_out.ok
             THEN /\ call' = args
                  /\ Fail(IF ~a_in.ok THEN a_in.msg ELSE a_out.msg)
             ELSE /\ call' = [args EXCEPT !.addr_in = a_in.val, !.addr_out = a_out.val,
                                          !.raw_amount_in = RawAmount(amt, args.decimals_in)]
                  /\ pc' = "quote"
                  /\ UNCHANGED result
    /\ UNCHANGED <<clock, allowance, nonce, txs, ticks>>
    /\ UNCHANGED codecVars

V2Start == V2StartWith(TokenArgs, TokenArgs, Amounts, Slippages)

\* HbarSwapEngine.swap_hbar_for_usdc: addresses and amount conversions
HbarForUsdcStart ==
    /\ pc = "idle"
    /\ \E amt \in Amounts, slip \in SlippagePercents :
         call' = [NoCall EXCEPT !.op = "swap_hbar_for_usdc", !.amount = amt, !.slippage = slip,
                                !.is_hbar_in = TRUE,
                                !.decimals_in = WHBAR_DECIMALS, !.decimals_out = USDC_DECIMALS,
                                !.fee = FEE_1500,
                                !.addr_in = TokenEvmAddress("WHBAR"),
                                !.addr_out = TokenEvmAddress("USDC"),
                                !.raw_amount_in = RawAmount(amt, WHBAR_DECIMALS),
                                !.amount_in_wei = RawAmount(amt, NATIVE_DECIMALS)]
    /\ pc' = "quote"
    /\ UNCHANGED <<clock, allowance, nonce, txs, ticks, result>>
    /\ UNCHANGED codecVars

\* HbarSwapEngine.swap_usdc_for_whbar: addresses and amount conversion
UsdcForWhbarStart ==
    /\ pc = "idle"
    /\ \E amt \in Amounts, slip \in SlippagePercents :
         call' = [NoCall EXCEPT !.op = "swap_usdc_for_whbar", !.amount = amt, !.slippage = slip,
                                !.decimals_in = USDC_DECIMALS, !.decimals_out = WHBAR_DECIMALS,
                                !.fee = FEE_1500,
                                !.addr_in = TokenEvmAddress("USDC"),
                                !.addr_out = TokenEvmAddress("WHBAR"),
                                !.raw_amount_in = RawAmount(amt, USDC_DECIMALS)]
    /\ pc' = "quote"
    /\ UNCHANGED <<clock, allowance, nonce, txs, ticks, result>>
    /\ UNCHANGED codecVars

\* the step after the quote: the allowance when a token is spent, else the deadline
AfterQuote(c) ==
    IF c.op = "swap" THEN (IF c.is_hbar_in THEN "prepare" ELSE "allowance")
    ELSE IF c.op = "swap_usdc_for_whbar" THEN "allowance"
    ELSE "prepare"

\* get_quote_single / quoteExactInputSingle answers, and the minimum output follows
Quote ==
    /\ pc = "quote"
    /\ LET path == IF call.op = "swap"
                   THEN encode_path(<<call.addr_in, call.addr_out>>, <<call.fee>>)
                   ELSE Ok(<<>>)
       IN  IF ~path.ok
           THEN Fail(path.msg) /\ UNCHANGED call
           ELSE /\ \E expected \in QuoteOuts :
                     call' = [call EXCEPT
                                !.quote_calls = @ + 1,
                                !.quote_path = path.val,
                                !.expected_out = expected,
                                !.min_out = IF call.op = "swap"
                                            THEN MinOut(expected, call.slippage)
                                            ELSE HbarMinOut(expected, call.slippage)]
                /\ pc' = AfterQuote(call)
                /\ UNCHANGED result
    /\ UNCHANGED <<clock, allowance, nonce, txs, ticks>>
    /\ UNCHANGED codecVars

\* a variant of get_quote_single without the wrapping of the quoter's error
QuoteFailUnwrapped ==
    /\ pc = "quote"
    /\ Fail("execution reverted")
    /\ call' = [call EXCEPT !.quote_calls = @ + 1]
    /\ UNCHANGED <<clock, allowance, nonce, txs, ticks>>
    /\ UNCHANGED codecVars

\* the quoter reverts or cannot be reached: get_quote_single wraps the error in
\* RuntimeError("Quote failed: ..."), HbarSwapEngine lets the quoter's error through
QuoteFail ==
    /\ pc = "quote"
    /\ Fail(IF call.op = "swap" THEN "Quote failed" ELSE "execution reverted")
    /\ call' = [call EXCEPT !.quote_calls = @ + 1]
    /\ UNCHANGED <<clock, allowance, nonce, txs, ticks>>
    /\ UNCHANGED codecVars

\* erc20.allowance(eoa, router).call() and the comparison with the amount
ReadAllowance ==
    /\ pc = "allowance"
    /\ LET seen  == IF call.addr_in \in DOMAIN allowance THEN allowance[call.addr_in] ELSE <<>>
           needs == IF call.op = "swap"
                    THEN NeedsApproval(seen, call.raw_amount_in)
                    ELSE ~AlreadyApproved(seen, call.raw_amount_in)
       IN  /\ call' = [call EXCEPT !.allowance_reads = @ + 1, !.allowance_seen = seen,
                                   !.approval = IF needs THEN "needed" ELSE "sufficient"]
           /\ pc' = IF needs THEN "approve" ELSE "prepare"
    /\ UNCHANGED <<clock, allowance, nonce, txs, ticks, result>>
    /\ UNCHANGED codecVars

\* build, sign and send the approval on the account's current transaction count
SendApprove ==
    /\ pc = "approve"
    /\ txs' = Broadcast(ApproveTx(call, nonce))
    /\ call' = [call EXCEPT !.approve_hash = Len(txs) + 1]
    /\ pc' = "approve_wait"
    /\ UNCHANGED <<clock, allowance, nonce, ticks, result>>
    /\ UNCHANGED codecVars

Later(clk, ms) == BAdd(clk, BFromInt(ms))

\* a variant that gives up once the approval is confirmed, for the caller to retry
ApproveConfirmedTerminal ==
    /\ pc = "approve_wait"
    /\ txs[call.approve_hash].mined
    /\ call' = [call EXCEPT !.approval = "approved"]
    /\ Fail("Insufficient allowance")
    /\ UNCHANGED <<clock, allowance, nonce, txs, ticks>>
    /\ UNCHANGED codecVars

\* wait_for_transaction_receipt returns for the approval; its status is not read.
\* SaucerSwapV2Engine then sleeps 5 seconds.
ApproveConfirmed ==
    /\ pc = "approve_wait"
    /\ txs[call.approve_hash].mined
    /\ call' = [call EXCEPT !.approval = "approved"]
    /\ clock' = IF call.op = "swap" THEN Later(clock, PROPAGATION_SLEEP_S * 1000) ELSE clock
    /\ pc' = "prepare"
    /\ UNCHANGED <<allowance, nonce, txs, ticks, result>>
    /\ UNCHANGED codecVars

\* a variant that keeps polling for the receipt without a timeout
WaitBlocks ==
    /\ pc \in {"approve_wait", "wait"}
    /\ ~txs[IF pc = "wait" THEN call.swap_hash ELSE call.approve_hash].mined
    /\ UNCHANGED engineVars
    /\ UNCHANGED codecVars

\* no receipt within the timeout: wait_for_transaction_receipt raises
WaitTimeout ==
    /\ pc \in {"approve_wait", "wait"}
    /\ ~txs[IF pc = "wait" THEN call.swap_hash ELSE call.approve_hash].mined
    /\ clock' = Later(clock, RECEIPT_TIMEOUT_S * 1000)
    /\ Fail("TimeExhausted")
    /\ UNCHANGED <<allowance, nonce, txs, ticks, call>>
    /\ UNCHANGED codecVars

\* a variant that builds the path from the token arguments as they were given
PrepareUnsubstituted ==
    /\ pc = "prepare"
    /\ IF call.op = "swap"
       THEN LET path == encode_path(<<call.token_in_id, call.token_out_id>>, <<call.fee>>)
            IN  IF ~path.ok
                THEN Fail(path.msg) /\ UNCHANGED call
                ELSE /\ call' = [call EXCEPT !.path_bytes = path.val,
                                             !.deadline = Deadline(clock),
                                             !.deadline_clock = clock]
                     /\ pc' = "build"
                     /\ UNCHANGED result
       ELSE /\ call' = [call EXCEPT !.deadline = HbarDeadline(clock), !.deadline_clock = clock]
            /\ pc' = "build"
            /\ UNCHANGED result
    /\ UNCHANGED <<clock, allowance, nonce, txs, ticks>>
    /\ UNCHANGED codecVars

\* SaucerSwapV2Engine.swap steps 4 and 5 (the path and the deadline);
\* HbarSwapEngine: the deadline
Prepare ==
    /\ pc = "prepare"
    /\ IF call.op = "swap"
       THEN LET path == encode_path(<<IF call.is_hbar_in THEN WHBAR_ID ELSE call.token_in_id,
                                      IF call.is_hbar_out THEN WHBAR_ID ELSE call.token_out_id>>,
                                    <<call.fee>>)
            IN  IF ~path.ok
                THEN Fail(path.msg) /\ UNCHANGED call
                ELSE /\ call' = [call EXCEPT !.path_bytes = path.val,
                                             !.deadline = Deadline(clock),
                                             !.deadline_clock = clock]
                     /\ pc' = "build"
                     /\ UNCHANGED result
       ELSE /\ call' = [call EXCEPT !.deadline = HbarDeadline(clock), !.deadline_clock = clock]
            /\ pc' = "build"
            /\ UNCHANGED result
    /\ UNCHANGED <<clock, allowance, nonce, txs, ticks>>
    /\ UNCHANGED codecVars

\* build_transaction with the gas price and the account's transaction count
Build ==
    /\ pc = "build"
    /\ call' = [call EXCEPT !.tx = IF call.op = "swap" THEN SwapTx(call, nonce)
                                   ELSE HbarSwapTx(call, nonce)]
    /\ pc' = "send"
    /\ UNCHANGED <<clock, allowance, nonce, txs, ticks, result>>
    /\ UNCHANGED codecVars

\* sign_transaction and send_raw_transaction
Send ==
    /\ pc = "send"
    /\ txs' = Broadcast(call.tx)
    /\ call' = [call EXCEPT !.swap_hash = Len(txs) + 1]
    /\ pc' = "wait"
    /\ UNCHANGED <<clock, allowance, nonce, ticks, result>>
    /\ UNCHANGED codecVars

\* a variant that reports success for every receipt, whatever its status
ReceiptIgnoresStatus ==
    /\ pc = "wait"
    /\ txs[call.swap_hash].mined
    /\ result' = [NoResult EXCEPT !.success = TRUE, !.tx_hash = call.swap_hash,
                                  !.amount_in = call.amount,
                                  !.amount_out = [raw |-> call.expected_out,
                                                  decimals |-> call.decimals_out],
                                  !.gas_used = txs[call.swap_hash].gas_used]
    /\ pc' = "done"
    /\ UNCHANGED <<clock, allowance, nonce, txs, ticks, call>>
    /\ UNCHANGED codecVars

\* a variant whose result for a reverted swap carries no transaction hash
ReceiptDropsHash ==
    /\ pc = "wait"
    /\ txs[call.swap_hash].mined
    /\ result' = IF txs[call.swap_hash].status = 1
                 THEN [NoResult EXCEPT !.success = TRUE, !.tx_hash = call.swap_hash,
                                       !.amount_in = call.amount,
                                       !.amount_out = [raw |-> call.expected_out,
                                                       decimals |-> call.decimals_out],
                                       !.gas_used = txs[call.swap_hash].gas_used]
                 ELSE [NoResult EXCEPT !.error = "Transaction reverted"]
    /\ pc' = "done"
    /\ UNCHANGED <<clock, allowance, nonce, txs, ticks, call>>
    /\ UNCHANGED codecVars

\* a variant that submits the swap again when it reverted
ReceiptRetries ==
    /\ pc = "wait"
    /\ txs[call.swap_hash].mined
    /\ IF txs[call.swap_hash].status = 1
       THEN /\ result' = [NoResult EXCEPT !.success = TRUE, !.tx_hash = call.swap_hash,
                                          !.amount_in = call.amount,
                                          !.amount_out = [raw |-> call.expected_out,
                                                          decimals |-> call.decimals_out],
                                          !.gas_used = txs[call.swap_hash].gas_used]
            /\ pc' = "done"
       ELSE /\ pc' = "build"
            /\ UNCHANGED result
    /\ UNCHANGED <<clock, allowance, nonce, txs, ticks, call>>
    /\ UNCHANGED codecVars

\* the receipt of the swap arrives and its status decides the result
Receipt ==
    /\ pc = "wait"
    /\ txs[call.swap_hash].mined
    /\ result' = IF txs[call.swap_hash].status = 1
                 THEN [NoResult EXCEPT !.success = TRUE, !.tx_hash = call.swap_hash,
                                       !.amount_in = call.amount,
                                       !.amount_out = [raw |-> call.expected_out,
                                                       decimals |-> call.decimals_out],
                                       !.gas_used = txs[call.swap_hash].gas_used]
                 ELSE [NoResult EXCEPT !.tx_hash = call.swap_hash,
                                       !.error = "Transaction reverted"]
    /\ pc' = "done"
    /\ UNCHANGED <<clock, allowance, nonce, txs, ticks, call>>
    /\ UNCHANGED codecVars

\* a call to the node raises: the allowance read, the gas price, the transaction
\* count or the broadcast
RpcError ==
    /\ pc \in {"allowance", "approve", "build", "send"}
    /\ Fail("RPC error")
    /\ UNCHANGED <<clock, allowance, nonce, txs, ticks, call>>
    /\ UNCHANGED codecVars

(***************************************************************************)
(* The ledger and the clock.                                               *)
(***************************************************************************)
GasUsages == {96000}

Pending == {i \in 1..Len(txs) : ~txs[i].mined}
\* the pending transactions that carry the account's next nonce
Executable == {i \in Pending : txs[i].tx.nonce = nonce}

\* the tokens a swap transaction pulls from the account through the router's
\* allowance: the input token of the swap call, unless the input is attached as value
PulledTokens(tx) ==
    IF tx.phase # "swap" \/ tx.value # <<>> THEN {}
    ELSE IF tx.fn = "exactInputSingle" THEN {tx.args[1].tokenIn} \cap DOMAIN allowance
    ELSE {a \in DOMAIN allowance :
             FromHex(SubSeq(a, 3, Len(a))) = SubSeq(SwapParams(tx).path, 1, 20)}

\* the ledger executes a pending transaction that carries the account's next nonce;
\* a successful approval sets the allowance; a swap succeeds only within the
\* allowance of its input token, which it spends
Mine ==
    /\ \E i \in Executable :
         LET tx     == txs[i].tx
             pulled == PulledTokens(tx)
             amount == SwapParams(tx).amountIn
         IN  \E st \in {0, 1}, gas \in GasUsages :
               /\ st = 1 => \A a \in pulled : BLeq(amount, allowance[a])
               /\ txs' = [txs EXCEPT ![i].mined = TRUE, ![i].status = st, ![i].gas_used = gas]
               /\ IF st = 1 /\ tx.phase = "approve" /\ tx.token \in DOMAIN allowance
                  THEN allowance' = [allowance EXCEPT ![tx.token] = tx.args[2]]
                  ELSE IF st = 1 /\ pulled # {}
                  THEN allowance' = [a \in DOMAIN allowance |->
                                        IF a \in pulled THEN BSub(allowance[a], amount)
                                        ELSE allowance[a]]
                  ELSE UNCHANGED allowance
    /\ nonce' = nonce + 1
    /\ UNCHANGED <<clock, pc, call, result, ticks>>
    /\ UNCHANGED codecVars

\* time passes while the node is asked for the gas price and the transaction
\* count and while the transaction is signed
Tick ==
    /\ pc \in {"build", "send"}
    /\ ticks < MaxTicks
    /\ \E d \in Delays : clock' = Later(clock, d)
    /\ ticks' = ticks + 1
    /\ UNCHANGED <<allowance, nonce, txs, pc, call, result>>
    /\ UNCHANGED codecVars

Next ==
    \/ V2Start
    \/ HbarForUsdcStart
    \/ UsdcForWhbarStart
    \/ Quote
    \/ QuoteFail
    \/ ReadAllowance
    \/ SendApprove
    \/ ApproveConfirmed
    \/ WaitTimeout
    \/ Prepare
    \/ Build
    \/ Send
    \/ Receipt
    \/ RpcError
    \/ Mine
    \/ Tick

Spec == Init /\ [][Next]_vars

\* the steps of the invocation that end a call to the node: every such call returns
\* or raises, and every receipt wait returns or times out
NodeStep ==
    \/ QuoteFail
    \/ RpcError
    \/ WaitTimeout
    \/ ApproveConfirmed
    \/ Receipt
    \/ ReadAllowance
    \/ SendApprove
    \/ Quote
    \/ Build
    \/ Send

\* the steps of the invocation itself: synchronous code
EngineStep == NodeStep \/ Prepare

\* the invocations followed to their end: one amount and one slippage for
\* SaucerSwapV2Engine.swap, every shape and a malformed identifier among the tokens
V2LiveStart ==
    V2StartWith({HBAR, USDC_ID, <<"0", ".", "0">>}, {HBAR, WBTC_ID}, {Dec(1, 1)}, {Dec(1, 100)})

LiveInit ==
    /\ EngineInit
    /\ allowance[hedera_id_to_evm(WBTC_ID).val] = <<>>
    /\ CodecIdle

LiveNext ==
    \/ V2LiveStart
    \/ HbarForUsdcStart
    \/ UsdcForWhbarStart
    \/ EngineStep
    \/ Mine
    \/ Tick

\* an invocation is under way
Running == pc \notin {"idle", "done"}

\* The engine keeps running once invoked: a call to the node ends, and the local
\* computation of path and deadline ends; the ledger and the caller owe nothing.
\* The last condition is WF_vars(Prepare) written out, Prepare being enabled exactly
\* when pc = "prepare".
SpecLive ==
    /\ LiveInit
    /\ [][LiveNext]_vars
    /\ WF_vars(NodeStep)
    /\ ([]<>(pc # "prepare") \/ []<><<Prepare>>_vars)

(***************************************************************************)
(* The codec on its own: an input is drawn, the function is applied.       *)
(***************************************************************************)
Seqs(S, n) == UNION {[1..k -> S] : k \in 0..n}

IdParts == {<<>>, <<"0">>, <<"1", "0">>, <<"1", "7", "1">>, <<"x">>}
RouterHex == Hex040(ROUTER_NUM)
\* identifiers: dotted strings of up to MaxParts parts, the tokens of the
\* configuration, and 0x strings in lower, checksummed and upper case, one too short
CodecIds ==
    {Join(ps, ".") : ps \in Seqs(IdParts, MaxParts) \ {<<>>}}
        \cup {WHBAR_ID, USDC_ID, DottedId(ROUTER_NUM)}
        \cup {<<"0", "x">> \o RouterHex, router_address,
              <<"0", "x">> \o [i \in 1..40 |-> UpperChar(RouterHex[i])],
              <<"0", "x", "1", "2">>}
PathTokens == {WHBAR_ID, USDC_ID, DottedId(10), <<"0", ".", "0">>}
PathFees == {FEE_MEDIUM, FEE_STABLE}

EngineIdle ==
    /\ clock = BAdd(BMulSmall(BFromInt(ClockStartSec), 1000), BFromInt(ClockStartMs))
    /\ allowance = [a \in TokenAddrs |-> <<>>]
    /\ nonce = 0
    /\ txs = <<>>
    /\ pc = "idle"
    /\ call = NoCall
    /\ result = NoResult
    /\ ticks = 0

CodecInit ==
    /\ EngineIdle
    /\ \/ \E id \in CodecIds : cin = [op |-> "hedera_id_to_evm", id |-> id]
       \/ \E ts \in Seqs(PathTokens, MaxTokens), fs \in Seqs(PathFees, MaxTokens) :
            cin = [op |-> "encode_path", tokens |-> ts, fees |-> fs]
    /\ cout = Nothing
    /\ cout2 = Nothing

ConvertId ==
    /\ cin.op = "hedera_id_to_evm"
    /\ cout = Nothing
    /\ cout' = hedera_id_to_evm(cin.id)
    /\ UNCHANGED <<cin, cout2>>
    /\ UNCHANGED engineVars

ConvertAgain ==
    /\ cin.op = "hedera_id_to_evm"
    /\ cout.ok
    /\ cout2 = Nothing
    /\ cout2' = hedera_id_to_evm(cout.val)
    /\ UNCHANGED <<cin, cout>>
    /\ UNCHANGED engineVars

EncodePath ==
    /\ cin.op = "encode_path"
    /\ cout = Nothing
    /\ cout' = encode_path(cin.tokens, cin.fees)
    /\ UNCHANGED <<cin, cout2>>
    /\ UNCHANGED engineVars

CodecNext == ConvertId \/ ConvertAgain \/ EncodePath

SpecCodec == CodecInit /\ [][CodecNext]_vars

(***************************************************************************)
(* Invocations one after another on one credential: the caller starts the  *)
(* next swap only when the previous one has returned.                      *)
(***************************************************************************)
\* the caller stops invoking once this many transactions have been broadcast
MaxSerialTxs == 2

\* the operation has returned; the caller may invoke again while fewer than max
\* transactions have been broadcast
ReturnBelow(max) ==
    /\ pc = "done"
    /\ Len(txs) < max
    /\ pc' = "idle"
    /\ call' = NoCall
    /\ result' = NoResult
    /\ ticks' = 0
    /\ UNCHANGED <<clock, allowance, nonce, txs>>
    /\ UNCHANGED codecVars

Return == ReturnBelow(MaxSerialTxs)

V2SerialStart == V2StartWith({USDC_ID}, {HBAR, WBTC_ID}, {Dec(1, 1)}, {Dec(1, 100)})

SerialInit ==
    /\ EngineInit
    /\ allowance[hedera_id_to_evm(WBTC_ID).val] = <<>>
    /\ CodecIdle

SerialNext ==
    \/ V2SerialStart
    \/ HbarForUsdcStart
    \/ Quote
    \/ QuoteFail
    \/ ReadAllowance
    \/ SendApprove
    \/ ApproveConfirmed
    \/ WaitTimeout
    \/ Prepare
    \/ Build
    \/ Send
    \/ Receipt
    \/ RpcError
    \/ Mine
    \/ Return

SpecSerial == SerialInit /\ [][SerialNext]_vars

(***************************************************************************)
(* Swaps of one token repeated on one credential: an invocation that has   *)
(* to raise the allowance, and the invocations that follow it.             *)
(***************************************************************************)
\* the caller stops invoking once this many transactions have been broadcast
MaxRepeatTxs == 3

ReturnRepeat == ReturnBelow(MaxRepeatTxs)

V2RepeatStart == V2StartWith({USDC_ID}, {WBTC_ID}, {Dec(1, 1)}, {Dec(1, 100)})

RepeatInit ==
    /\ EngineInit
    /\ allowance[hedera_id_to_evm(WBTC_ID).val] = <<>>
    /\ CodecIdle

\* the ledger confirms every transaction within the receipt timeout here
RepeatNext ==
    \/ V2RepeatStart
    \/ UsdcForWhbarStart
    \/ Quote
    \/ QuoteFail
    \/ ReadAllowance
    \/ SendApprove
    \/ ApproveConfirmed
    \/ Prepare
    \/ Build
    \/ Send
    \/ Receipt
    \/ RpcError
    \/ Mine
    \/ ReturnRepeat

SpecRepeat == RepeatInit /\ [][RepeatNext]_vars

(***************************************************************************)
(* Construction of an engine: __init__ of SaucerSwapV2Engine and of         *)
(* HbarSwapEngine.  An optional string is <<>> (None) or <<s>>.             *)
(***************************************************************************)
PyNone == <<>>
Some(s) == <<s>>
\* the truth value of an optional string: None and "" are false
Truthy(o) == o # PyNone /\ o[1] # ""
\* a or b
PyOr(a, b) == IF Truthy(a) THEN a ELSE b

\* the keys Account.from_key accepts
ValidKeys == {"0xkey"}
EngineKinds == {"SaucerSwapV2Engine", "HbarSwapEngine"}

\* a variant that does not probe the endpoint
EngineNewLazy(kind, private_key, env_key, connected) ==
    LET key == PyOr(private_key, env_key)
    IN  IF ~Truthy(key)
        THEN Raise("ValueError", IF kind = "SaucerSwapV2Engine" THEN "PRIVATE_KEY is required."
                                 ELSE "PRIVATE_KEY required")
        ELSE IF key[1] \notin ValidKeys THEN Raise("ValueError", "invalid private key")
        ELSE Ok([kind |-> kind, eoa |-> eoa])

\* __init__(rpc_url, private_key) with PRIVATE_KEY = env_key in the environment and
\* an endpoint that answers or does not
EngineNew(kind, private_key, env_key, connected) ==
    LET key == PyOr(private_key, env_key)
    IN  IF ~Truthy(key)
        THEN Raise("ValueError", IF kind = "SaucerSwapV2Engine" THEN "PRIVATE_KEY is required."
                                 ELSE "PRIVATE_KEY required")
        ELSE IF ~connected THEN Raise("ConnectionError", "Failed to connect")
        ELSE IF key[1] \notin ValidKeys THEN Raise("ValueError", "invalid private key")
        ELSE Ok([kind |-> kind, eoa |-> eoa])

KeyArgs == {PyNone, Some(""), Some("bad"), Some("0xkey")}
EnvKeys == {PyNone, Some(""), Some("0xkey")}

ConstructInit ==
    /\ clock = BAdd(BMulSmall(BFromInt(ClockStartSec), 1000), BFromInt(ClockStartMs))
    /\ allowance \in [TokenAddrs -> Allowances]
    /\ nonce = 0
    /\ txs = <<>>
    /\ pc = "new"
    /\ call = NoCall
    /\ result = NoResult
    /\ ticks = 0
    /\ \E kind \in EngineKinds, key \in KeyArgs, env \in EnvKeys, up \in BOOLEAN :
         cin = [op |-> "construct", kind |-> kind, private_key |-> key, env_key |-> env,
                connected |-> up]
    /\ cout = Nothing
    /\ cout2 = Nothing

\* the constructor runs: an instance exists only when it returns
Construct ==
    /\ pc = "new"
    /\ cout = Nothing
    /\ cout' = EngineNew(cin.kind, cin.private_key, cin.env_key, cin.connected)
    /\ pc' = IF cout'.ok THEN "idle" ELSE "new"
    /\ UNCHANGED <<cin, cout2>>
    /\ UNCHANGED <<clock, allowance, nonce, txs, call, result, ticks>>

\* the operations of the instance
V2Invoke == cout.ok /\ cout.val.kind = "SaucerSwapV2Engine" /\ V2Start
HbarForUsdcInvoke == cout.ok /\ cout.val.kind = "HbarSwapEngine" /\ HbarForUsdcStart
UsdcForWhbarInvoke == cout.ok /\ cout.val.kind = "HbarSwapEngine" /\ UsdcForWhbarStart

ConstructNext ==
    \/ Construct
    \/ V2Invoke
    \/ HbarForUsdcInvoke
    \/ UsdcForWhbarInvoke

SpecConstruct == ConstructInit /\ [][ConstructNext]_vars

(***************************************************************************)
(* SaucerSwapV2Engine.get_quote: a read-only quote.  The quoter contract's  *)
(* outcome for the call is an input: an amountOut or a revert.             *)
(***************************************************************************)
\* SaucerSwapV2.get_quote_single: res is what it returns or raises, asked what the
\* quoter was called with (None when it was not called)
get_quote_single(token_in, token_out, amount_in, fee, answer) ==
    LET path == encode_path(<<token_in, token_out>>, <<fee>>)
    IN  IF ~path.ok THEN [res |-> path, asked |-> PyNone]
        ELSE [res |-> IF answer.ok THEN Ok(answer.val)
                      ELSE Raise("RuntimeError", "Quote failed"),
              asked |-> Some([path |-> path.val, amountIn |-> amount_in])]

\* a variant without the except clause
get_quote_uncaught(token_in_id, token_out_id, amount, decimals_in, is_exact_input, fee, answer) ==
    LET addr_in  == IF Upper(token_in_id) = HBAR THEN Ok(whbar) ELSE hedera_id_to_evm(token_in_id)
        addr_out == IF Upper(token_out_id) = HBAR THEN Ok(whbar) ELSE hedera_id_to_evm(token_out_id)
    IN  IF ~addr_in.ok THEN [res |-> addr_in, asked |-> PyNone]
        ELSE IF ~addr_out.ok THEN [res |-> addr_out, asked |-> PyNone]
        ELSE IF is_exact_input
        THEN LET q == get_quote_single(addr_in.val, addr_out.val,
                                       RawAmount(amount, decimals_in), fee, answer)
             IN  [res |-> IF q.res.ok THEN Ok(Some(q.res.val)) ELSE q.res, asked |-> q.asked]
        ELSE [res |-> Ok(PyNone), asked |-> PyNone]

\* get_quote: every exception inside the try is logged and None returned
get_quote(token_in_id, token_out_id, amount, decimals_in, is_exact_input, fee, answer) ==
    LET addr_in  == IF Upper(token_in_id) = HBAR THEN Ok(whbar) ELSE hedera_id_to_evm(token_in_id)
        addr_out == IF Upper(token_out_id) = HBAR THEN Ok(whbar) ELSE hedera_id_to_evm(token_out_id)
    IN  IF ~addr_in.ok \/ ~addr_out.ok THEN [res |-> Ok(PyNone), asked |-> PyNone]
        ELSE IF is_exact_input
        THEN LET q == get_quote_single(addr_in.val, addr_out.val,
                                       RawAmount(amount, decimals_in), fee, answer)
             IN  [res |-> IF q.res.ok THEN Ok(Some(q.res.val)) ELSE Ok(PyNone),
                  asked |-> q.asked]
        ELSE [res |-> Ok(PyNone), asked |-> PyNone]

\* what the quoter contract does with a call: an amountOut, or a revert
QuoterAnswers == {Ok(q) : q \in QuoteOuts} \cup {Raise("ContractLogicError", "execution reverted")}

GetQuoteInit ==
    /\ EngineInit
    /\ \E tin \in TokenArgs, tout \in TokenArgs, amt \in Amounts, exact \in BOOLEAN,
          answer \in QuoterAnswers :
         cin = [op |-> "get_quote", token_in_id |-> tin, token_out_id |-> tout,
                amount |-> amt, decimals_in |-> DecimalsOf(tin), is_exact_input |-> exact,
                fee |-> DEFAULT_FEE, answer |-> answer]
    /\ cout = Nothing
    /\ cout2 = Nothing

\* the caller asks for a quote: cout is what get_quote returns or raises, cout2 what
\* the quoter was called with
GetQuote ==
    /\ cin.op = "get_quote"
    /\ cout = Nothing
    /\ LET r == get_quote(cin.token_in_id, cin.token_out_id, cin.amount, cin.decimals_in,
                          cin.is_exact_input, cin.fee, cin.answer)
       IN  /\ cout' = r.res
           /\ cout2' = Ok(r.asked)
    /\ UNCHANGED cin
    /\ UNCHANGED engineVars

SpecQuote == GetQuoteInit /\ [][GetQuote]_vars

(***************************************************************************)
(* Properties.                                                             *)
(***************************************************************************)
\* the broadcast transactions of the swap phase and of the approval phase
SwapTxs == {i \in 1..Len(txs) : txs[i].tx.phase = "swap"}
ApproveTxs == {i \in 1..Len(txs) : txs[i].tx.phase = "approve"}
Broadcasted == pc = "wait" \/ (pc = "done" /\ call.swap_hash # 0)

\* num/den * 10^decimals in exact arithmetic
ExactScaled(d, decimals) == BDivSmall(BMulSmall(BPow10(decimals), d.num), d.den).q
\* floor(e * (1 - num/den)) in exact arithmetic
ExactFloor(e, s) == BDivSmall(BMulSmall(e, s.den - s.num), s.den).q
\* the slippage fraction of an invocation: HbarSwapEngine takes a percentage
SlippageFraction(c) ==
    IF c.op = "swap" THEN c.slippage ELSE Dec(c.slippage.num, c.slippage.den * 100)

\* C1: a swap to native HBAR never broadcasts more than one swap-phase transaction,
\* any it broadcasts is a multicall of exactly two calls (the exactInput swap, then
\* unwrapWHBAR), and once the invocation has passed its broadcast there is exactly
\* one: the swap and the unwrap never travel as two transactions.
C1_NativeOutIsOneMulticall ==
    (call.op = "swap" /\ call.is_hbar_out) =>
        /\ Cardinality(SwapTxs) <= 1
        /\ \A i \in SwapTxs :
             /\ txs[i].tx.fn = "multicall"
             /\ Len(txs[i].tx.args) = 2
             /\ txs[i].tx.args[1].fn = "exactInput"
             /\ txs[i].tx.args[2].fn = "unwrapWHBAR"
        /\ Broadcasted => Cardinality(SwapTxs) = 1

C1_Witness ==
    /\ call.op = "swap" /\ call.is_hbar_out /\ ~call.is_hbar_in
    /\ result.success
    /\ Len(txs) = 2

\* C2 (as claimed): the swap transaction of a native-in invocation carries exactly
\* amount * 10^18 as value, and the invocation reads no allowance and sends no approval.
C2_NativeInAttachesValue ==
    call.is_hbar_in =>
        /\ \A i \in SwapTxs : txs[i].tx.value = ExactScaled(call.amount, NATIVE_DECIMALS)
        /\ call.allowance_reads = 0
        /\ ApproveTxs = {}

\* C3 (as claimed): the amountOutMinimum of a submitted swap is floor(E * (1 - s)) for
\* the quoted output E and the slippage fraction s, and is never greater than E.
C3_MinOutIsFloor ==
    \A i \in SwapTxs :
        LET minOut == SwapParams(txs[i].tx).amountOutMinimum
        IN  /\ minOut = ExactFloor(call.expected_out, SlippageFraction(call))
            /\ BLeq(minOut, call.expected_out)

\* C4 (as claimed): at the moment SaucerSwapV2Engine.swap broadcasts, the deadline of
\* the swap lies in [now_ms, now_ms + 600000], whatever time has passed.
C4_DeadlineWindowAtBroadcast ==
    \A i \in SwapTxs :
        call.op = "swap" =>
            LET now == NowMs(txs[i].sent_clock)
                d   == SwapParams(txs[i].tx).deadline
            IN  BLeq(now, d) /\ BLeq(d, BAdd(now, BFromInt(GRACE_MS)))

\* C4 (amended): the deadline is the millisecond clock read when it was computed plus
\* 600000; at the broadcast it is at most now_ms + 600000, and it is at least now_ms
\* when no more than 600000 ms have passed since it was computed.
C4_DeadlineWindowIfPrompt ==
    \A i \in SwapTxs :
        call.op = "swap" =>
            LET now  == NowMs(txs[i].sent_clock)
                then == NowMs(call.deadline_clock)
                d    == SwapParams(txs[i].tx).deadline
            IN  /\ d = BAdd(then, BFromInt(GRACE_MS))
                /\ BLeq(d, BAdd(now, BFromInt(GRACE_MS)))
                /\ BLeq(now, BAdd(then, BFromInt(GRACE_MS))) => BLeq(now, d)

C4_Witness ==
    \E i \in SwapTxs :
        /\ call.op = "swap"
        /\ BLt(call.deadline_clock, txs[i].sent_clock)
        /\ BLeq(NowMs(txs[i].sent_clock), SwapParams(txs[i].tx).deadline)

\* C5 (as claimed): the deadline of every swap transaction, of either engine, is a
\* millisecond timestamp: the millisecond clock read when it was computed plus a grace
\* window of at most 600000 ms.
C5_DeadlineInMilliseconds ==
    \A i \in SwapTxs :
        LET then == NowMs(call.deadline_clock)
            d    == SwapParams(txs[i].tx).deadline
        IN  BLeq(then, d) /\ BLeq(d, BAdd(then, BFromInt(GRACE_MS)))

\* the number a dotted identifier of the configuration names
NumOf(id) == CHOOSE n \in {WHBAR_NUM, USDC_NUM, WBTC_NUM, ROUTER_NUM, 10} : DottedId(n) = id
\* the 20 bytes, big-endian, of a number below 2^31
BigEndian20(n) == [i \in 1..20 |-> IF i <= 16 THEN 0 ELSE (n \div (256 ^ (20 - i))) % 256]
ValidPathToken(id) == id \in {WHBAR_ID, USDC_ID, DottedId(10)}

\* C6: for N >= 2 valid tokens and N - 1 fees encode_path returns
\* addr(t0) || fee0 || addr(t1) || ... || addr(t(N-1)): token i (from 0) at byte offset
\* 23 i as 20 bytes, fee i at offset 23 i + 20 as 3 bytes big-endian, 20 N + 3 (N - 1)
\* bytes in all, 43 for two tokens.
C6_PathLayout ==
    (cin.op = "encode_path" /\ cout # Nothing) =>
        LET N == Len(cin.tokens)
        IN  /\ (N >= 2 /\ Len(cin.fees) = N - 1 /\ \A i \in 1..N : ValidPathToken(cin.tokens[i]))
                 => cout.ok
            /\ cout.ok =>
                 /\ Len(cout.val) = 20 * N + 3 * (N - 1)
                 /\ N = 2 => Len(cout.val) = 43
                 /\ \A i \in 1..N :
                      SubSeq(cout.val, 23 * (i - 1) + 1, 23 * (i - 1) + 20)
                          = BigEndian20(NumOf(cin.tokens[i]))
                 /\ \A i \in 1..(N - 1) :
                      LET o == 23 * (i - 1) + 20
                      IN  65536 * cout.val[o + 1] + 256 * cout.val[o + 2] + cout.val[o + 3]
                              = cin.fees[i]

C6_Witness ==
    /\ cin.op = "encode_path"
    /\ cin.tokens = <<WHBAR_ID, USDC_ID, DottedId(10)>>
    /\ cin.fees = <<FEE_STABLE, FEE_MEDIUM>>
    /\ cout.ok

\* C7: encode_path fails with the fee-count error, returning no bytes, whenever
\* len(fees) # len(tokens) - 1 (an empty token list included), and succeeds only when
\* len(fees) = len(tokens) - 1.
C7_FeeCountMismatch ==
    (cin.op = "encode_path" /\ cout # Nothing) =>
        /\ Len(cin.fees) # Len(cin.tokens) - 1 =>
             ~cout.ok /\ cout.exc = "ValueError" /\ cout.msg = "Expected fees"
        /\ cout.ok => Len(cin.fees) = Len(cin.tokens) - 1

C7_Witness ==
    /\ cin.op = "encode_path"
    /\ cin.tokens = <<>>
    /\ cin.fees = <<>>
    /\ cout # Nothing
    /\ ~cout.ok

\* C8: hedera_id_to_evm applied to its own result returns that result, for dotted
\* identifiers and for inputs already in 0x form.
C8_Idempotent == cout2 # Nothing => cout2 = cout

C8_Witness ==
    /\ cin.op = "hedera_id_to_evm"
    /\ cin.id = DottedId(ROUTER_NUM)
    /\ cout2 # Nothing
    /\ cout2.ok

\* the part of a string after its last dot, and the number of its dots
RECURSIVE AfterLastDot(_)
AfterLastDot(s) ==
    IF s = <<>> \/ s[Len(s)] = "." THEN <<>>
    ELSE Append(AfterLastDot(SubSeq(s, 1, Len(s) - 1)), s[Len(s)])
DotCount(s) == Cardinality({i \in 1..Len(s) : s[i] = "."})
RECURSIVE DecimalValue(_)
DecimalValue(p) ==
    IF p = <<>> THEN 0
    ELSE 10 * DecimalValue(SubSeq(p, 1, Len(p) - 1))
         + (CHOOSE v \in 0..9 : Digits[v + 1] = p[Len(p)])
\* shard.realm.num: two dots, and a non-empty run of digits after the second
IsThreePartId(s) ==
    /\ DotCount(s) = 2
    /\ AfterLastDot(s) # <<>>
    /\ \A i \in 1..Len(AfterLastDot(s)) : \E v \in 0..9 : Digits[v + 1] = AfterLastDot(s)[i]
RECURSIVE HexValue(_)
HexValue(h) ==
    IF h = <<>> THEN 0
    ELSE 16 * HexValue(SubSeq(h, 1, Len(h) - 1)) + HexVal(h[Len(h)])

C10_NoApprovalWhenSufficient ==
    (call.allowance_reads > 0 /\ BLeq(call.raw_amount_in, call.allowance_seen)) =>
        /\ call.approval = "sufficient"
        /\ pc # "approve" /\ pc # "approve_wait"
        /\ ApproveTxs = {}
        /\ Len(txs) <= 1
        /\ Broadcasted => (Len(txs) = 1 /\ SwapTxs = {1})

C10_Witness ==
    /\ call.op = "swap" /\ ~call.is_hbar_in /\ ~call.is_hbar_out
    /\ call.approval = "sufficient"
    /\ result.success
    /\ Len(txs) = 1

\* C11: when the invocation ends on a receipt of the swap with a failure status, the
\* SwapResult has success = false and the hash of the swap transaction; when it ends
\* before any swap transaction was broadcast, the SwapResult has success = false and
\* an empty tx_hash.
C11_FailureResults ==
    [][(pc # "done" /\ pc' = "done") =>
          /\ (pc = "wait" /\ txs[call.swap_hash].mined /\ txs[call.swap_hash].status # 1)
                => (~result'.success /\ result'.tx_hash = call.swap_hash
                                     /\ result'.tx_hash # 0)
          /\ SwapTxs = {} => (~result'.success /\ result'.tx_hash = 0)]_vars

C11_Witness ==
    /\ pc = "done"
    /\ ~result.success
    /\ result.tx_hash # 0
    /\ txs[result.tx_hash].tx.phase = "swap"
    /\ txs[result.tx_hash].mined /\ txs[result.tx_hash].status = 0

\* C12: no swap operation raises: every invocation that fails, at whatever step from
\* address resolution to confirmation, ends by returning a SwapResult with
\* success = false whose error is the message of the exception.
C12_NeverRaises ==
    /\ pc # "raised"
    /\ (pc = "done" /\ ~result.success) => result.error # ""
    /\ (pc = "done" /\ call.op = "swap" /\ call.addr_in = <<>>) =>
          (~result.success /\ result.error \in {"Invalid Hedera ID format",
                                                "invalid literal for int()"})

C12_Witness ==
    /\ pc = "done"
    /\ call.op = "swap"
    /\ call.token_in_id = <<"0", ".", "0">>
    /\ ~result.success
    /\ result.error = "Invalid Hedera ID format"

\* C13 (as claimed): the swap transaction of SaucerSwapV2Engine.swap has the shape of
\* the table: tokenIn native, a single exactInput call carrying the input amount as
\* value; tokenOut native, the multicall batch; neither native, a single exactInput
\* call with zero value.
C13_ShapePerTable ==
    \A i \in SwapTxs :
        call.op = "swap" =>
            /\ call.is_hbar_in =>
                 /\ txs[i].tx.fn = "exactInput"
                 /\ txs[i].tx.value = ExactScaled(call.amount, NATIVE_DECIMALS)
            /\ call.is_hbar_out => txs[i].tx.fn = "multicall"
            /\ (~call.is_hbar_in /\ ~call.is_hbar_out) =>
                 /\ txs[i].tx.fn = "exactInput"
                 /\ txs[i].tx.value = <<>>

\* a broadcast transaction carries an exactInput call that pays the router
PaysRouter(tx) ==
    \/ tx.fn = "exactInput" /\ tx.args[1].recipient = router_address
    \/ tx.fn = "multicall" /\ \E k \in 1..Len(tx.args) :
           tx.args[k].fn = "exactInput" /\ tx.args[k].args[1].recipient = router_address

\* C14: the native-out batch is one multicall with zero value whose calls are, in
\* order, exactInput paying the router with amountOutMinimum the minimum derived from
\* the quote and the slippage, then unwrapWHBAR paying the caller; no transaction pays
\* the router without unwrapping in the same transaction.
C14_BatchContents ==
    /\ \A i \in SwapTxs :
         (call.op = "swap" /\ call.is_hbar_out) =>
             LET tx == txs[i].tx
             IN  /\ tx.fn = "multicall"
                 /\ tx.value = <<>>
                 /\ Len(tx.args) = 2
                 /\ tx.args[1].fn = "exactInput"
                 /\ tx.args[1].args[1].recipient = router_address
                 /\ tx.args[1].args[1].amountOutMinimum
                        = MinOut(call.expected_out, call.slippage)
                 /\ tx.args[1].args[1].amountIn = call.raw_amount_in
                 /\ tx.args[2].fn = "unwrapWHBAR"
                 /\ tx.args[2].args = << <<>>, eoa >>
    /\ \A i \in SwapTxs :
         PaysRouter(txs[i].tx) =>
             /\ txs[i].tx.fn = "multicall"
             /\ txs[i].tx.args[Len(txs[i].tx.args)].fn = "unwrapWHBAR"

C14_Witness ==
    /\ call.op = "swap" /\ call.is_hbar_out /\ ~call.is_hbar_in
    /\ call.min_out # <<>>
    /\ Len(txs) = 1
    /\ txs[1].tx.fn = "multicall"
    /\ txs[1].mined /\ txs[1].status = 1

\* no signing credential: neither the argument nor the environment holds a non-empty key
NoCredential == cin.private_key \in {<<>>, <<"">>} /\ cin.env_key \in {<<>>, <<"">>}

\* C15: constructing either engine without a signing credential raises (ValueError),
\* and with a credential but an unreachable endpoint raises ConnectionError; in both
\* cases no instance exists, so no swap operation is ever invoked.
C15_EagerConstruction ==
    cin.op = "construct" =>
        /\ (cout # Nothing /\ NoCredential) => (~cout.ok /\ cout.exc = "ValueError")
        /\ (cout # Nothing /\ ~NoCredential /\ ~cin.connected)
              => (~cout.ok /\ cout.exc = "ConnectionError")
        /\ (NoCredential \/ ~cin.connected) => (pc = "new" /\ call = NoCall /\ txs = <<>>)

C15_Witness ==
    /\ cin.op = "construct"
    /\ cin.kind = "HbarSwapEngine"
    /\ ~NoCredential /\ ~cin.connected
    /\ cout # Nothing
    /\ cout.exc = "ConnectionError"

\* C16 (as claimed): when an approval transaction was needed, the swap is broadcast
\* only after the approval's confirmation has been observed, and at the moment of the
\* broadcast the ledger's allowance of the router for tokenIn is at least the raw
\* input amount, whatever the outcome of the approval transaction.
C16_ApprovalVisibleAtSwap ==
    [][(pc = "send" /\ pc' = "wait" /\ call.approve_hash # 0) =>
          /\ txs[call.approve_hash].mined
          /\ call.approval = "approved"
          /\ BLeq(call.raw_amount_in, allowance[call.addr_in])]_vars

\* C17 (as claimed): with invocations run strictly one after another, no two
\* broadcast transactions carry the same nonce and at most one transaction is in
\* flight (broadcast, not yet confirmed) at any time, also after an invocation that
\* ended with a confirmation timeout.
C17_OneInFlight ==
    /\ \A i, j \in 1..Len(txs) : i # j => txs[i].tx.nonce # txs[j].tx.nonce
    /\ Cardinality(Pending) <= 1

TimedOut == pc = "done" /\ result.error = "TimeExhausted"

\* C18: every invocation that has started ends with a SwapResult, and one whose
\* approval or swap receipt did not arrive within the 120 second timeout ends with
\* success = false, 120 seconds after it began to wait.
C18_Terminates ==
    /\ Running ~> (pc = "done")
    /\ [](TimedOut => ~result.success)
    /\ [][(pc \in {"approve_wait", "wait"} /\ pc' = "done" /\ ~result'.success
             /\ result'.tx_hash = 0)
            => clock' = Later(clock, RECEIPT_TIMEOUT_S * 1000)]_vars

C18_Witness ==
    /\ TimedOut
    /\ call.swap_hash # 0
    /\ ~txs[call.swap_hash].mined
    /\ ~result.success

\* the steps of an invocation that follow its quote
AfterQuotePcs == {"allowance", "approve", "approve_wait", "prepare", "build", "send", "wait"}

\* C19: an invocation broadcasts at most one swap transaction, whatever its outcome
\* (revert, timeout, RPC error), and asks the quoter at most once: exactly once when
\* it got as far as the quote's answer.
C19_NoRetry ==
    /\ Cardinality(SwapTxs) <= 1
    /\ call.quote_calls <= 1
    /\ (pc \in AfterQuotePcs \/ txs # <<>>) => call.quote_calls = 1
    /\ (pc = "done" /\ result.error \in {"Transaction reverted", "TimeExhausted", "RPC error"})
          => call.quote_calls = 1

C19_Witness ==
    /\ pc = "done"
    /\ call.op = "swap_usdc_for_whbar"
    /\ result.error = "Transaction reverted"
    /\ Cardinality(SwapTxs) = 1
    /\ call.quote_calls = 1

\* C20: the quote comes before every transaction of an invocation: while the quote is
\* awaited nothing has been broadcast, and when the quoter fails the invocation ends
\* with success = false, an empty tx_hash and, in SaucerSwapV2Engine.swap, the wrapped
\* error "Quote failed", with no transaction broadcast and the ledger's allowance and
\* nonce unchanged.
C20_QuoteFirst ==
    /\ [](pc = "quote" => (txs = <<>> /\ nonce = 0))
    /\ [](txs # <<>> => (call.quote_calls = 1 /\ result.error # "Quote failed"))
    /\ [][(pc = "quote" /\ pc' = "done") =>
             /\ ~result'.success
             /\ result'.tx_hash = 0
             /\ (call.op = "swap" /\ call'.quote_calls = 1) => result'.error = "Quote failed"
             /\ txs' = <<>>
             /\ allowance' = allowance
             /\ nonce' = nonce]_vars

C20_Witness ==
    /\ pc = "done"
    /\ call.op = "swap"
    /\ ~call.is_hbar_in
    /\ call.quote_calls = 1
    /\ result.error = "Quote failed"
    /\ allowance[call.addr_in] = <<>>
    /\ txs = <<>>

\* the identifier that stands for a token argument in a route
RouteToken(id) == IF Upper(id) = HBAR THEN WHBAR_ID ELSE id
\* the identifiers of the configuration, their addresses and their 20 bytes
KnownIds == {WHBAR_ID, USDC_ID, WBTC_ID}
KnownAddress == [id \in KnownIds |-> hedera_id_to_evm(id).val]
KnownBytes == [id \in KnownIds |-> BigEndian20(NumOf(id))]
\* token, fee, token as the 43 bytes of a single-hop path
RouteBytes(tin, fee, tout) ==
    KnownBytes[tin] \o <<fee \div 65536, (fee \div 256) % 256, fee % 256>> \o KnownBytes[tout]

\* C21: in SaucerSwapV2Engine.swap a token argument that is the native sentinel in
\* any casing is replaced by the wrapped-native address; the sentinel is never handed
\* to the address codec (which would reject it), so an invocation whose tokens are the
\* sentinel or identifiers of the configuration resolves both and reports no
\* identifier error; and the path of every swap transaction broadcast is the path the
\* quoter was given in the same invocation: the substituted tokens and the fee.
C21_SentinelSubstituted ==
    call.op = "swap" =>
        LET tin  == RouteToken(call.token_in_id)
            tout == RouteToken(call.token_out_id)
        IN  /\ call.is_hbar_in = (Upper(call.token_in_id) = HBAR)
            /\ call.is_hbar_out = (Upper(call.token_out_id) = HBAR)
            /\ (tin \in KnownIds /\ tout \in KnownIds) =>
                  /\ call.addr_in = KnownAddress[tin]
                  /\ call.addr_out = KnownAddress[tout]
                  /\ result.error \notin {"Invalid Hedera ID format", "invalid literal for int()"}
            /\ pc \in {"build", "send", "wait"} =>
                  /\ call.path_bytes = call.quote_path
                  /\ call.path_bytes = RouteBytes(tin, call.fee, tout)
            /\ \A i \in SwapTxs :
                  /\ SwapParams(txs[i].tx).path = call.quote_path
                  /\ SwapParams(txs[i].tx).path = RouteBytes(tin, call.fee, tout)

C21_Witness ==
    /\ pc = "done"
    /\ result.success
    /\ call.op = "swap"
    /\ call.token_in_id = <<"h", "b", "a", "r">>
    /\ call.token_out_id = USDC_ID
    /\ \E i \in SwapTxs : SwapParams(txs[i].tx).path = RouteBytes(WHBAR_ID, DEFAULT_FEE, USDC_ID)

\* transaction k is an approval that took effect and transaction k + 1 a swap of the
\* approved token that succeeded, the approval being the engine's for that amount
RaisedThenSwapped(k) ==
    /\ txs[k].tx.phase = "approve" /\ txs[k].mined /\ txs[k].status = 1
    /\ txs[k + 1].tx.phase = "swap" /\ txs[k + 1].mined /\ txs[k + 1].status = 1
    /\ PulledTokens(txs[k + 1].tx) = {txs[k].tx.token}
    /\ txs[k].tx.args[2] \in {ApproveAmount(SwapParams(txs[k + 1].tx).amountIn), MAX_UINT256}

\* C22: an approval of SaucerSwapV2Engine carries 10 times the raw input amount, one
\* of HbarSwapEngine 2^256 - 1; and when the last two transactions on the ledger are
\* such an approval and the swap it was raised for, both successful, an invocation
\* that swaps the same token with the same input amount finds the allowance
\* sufficient and broadcasts no approval.
C22_NoRepeatedApproval ==
    /\ [](pc = "approve_wait" =>
             txs[call.approve_hash].tx.args[2]
                = IF call.op = "swap" THEN BMulSmall(call.raw_amount_in, APPROVE_MULTIPLE)
                  ELSE MAX_UINT256)
    /\ [](call.approval = "sufficient" => (call.approve_hash = 0 /\ pc # "approve"))
    /\ [][(/\ pc = "allowance"
           /\ Len(txs) >= 2
           /\ RaisedThenSwapped(Len(txs) - 1)
           /\ call.addr_in = txs[Len(txs) - 1].tx.token
           /\ call.raw_amount_in = SwapParams(txs[Len(txs)].tx).amountIn)
          => (pc' \in {"prepare", "done"} /\ txs' = txs /\ call'.approve_hash = 0)]_vars

C22_Witness ==
    /\ Len(txs) = 3
    /\ RaisedThenSwapped(1)
    /\ txs[1].tx.args[2] = BMulSmall(call.raw_amount_in, APPROVE_MULTIPLE)
    /\ pc = "done" /\ result.success /\ result.tx_hash = 3
    /\ call.op = "swap"
    /\ call.approval = "sufficient"
    /\ call.allowance_seen = BMulSmall(call.raw_amount_in, APPROVE_MULTIPLE - 1)
    /\ txs[3].tx.phase = "swap"
    /\ SwapParams(txs[3].tx).amountIn = SwapParams(txs[2].tx).amountIn

\* C23: an allowance below the required amount never ends an invocation by itself:
\* the engine broadcasts exactly one approval, the step that observes its confirmation
\* leads on to the path and deadline, not to a result, and from there the invocation
\* reaches the broadcast of its swap unless a call to the node fails.
C23_ApprovalThenSwap ==
    /\ [](call.approval \in {"needed", "approved"} =>
             /\ BLt(call.allowance_seen, call.raw_amount_in)
             /\ Cardinality(ApproveTxs) = (IF call.approve_hash = 0 THEN 0 ELSE 1)
             /\ call.approve_hash = 0 =>
                    (pc = "approve" \/ (pc = "done" /\ result.error = "RPC error"))
             /\ result.error \in {"", "RPC error", "TimeExhausted", "Transaction reverted"})
    /\ [][(pc = "approve_wait" /\ txs[call.approve_hash].mined /\ pc' # pc) =>
             (pc' = "prepare" /\ result' = NoResult /\ call'.approval = "approved")]_vars
    /\ (call.approval = "approved") ~>
          (call.swap_hash # 0 \/ (pc = "done" /\ result.error = "RPC error"))

C23_Witness ==
    /\ pc = "done"
    /\ result.success
    /\ call.op = "swap"
    /\ call.approval = "approved"
    /\ BLt(call.allowance_seen, call.raw_amount_in)
    /\ Cardinality(ApproveTxs) = 1
    /\ call.approve_hash = 1 /\ call.swap_hash = 2

\* C24: an invocation returns success = true exactly when it ends by observing the
\* receipt of its broadcast swap transaction with status 1; the result then carries
\* that transaction's hash, the receipt's gas used, the input amount, and as
\* amount_out the quoter's expected output over 10^decimals_out.
C24_SuccessIffStatusOne ==
    /\ [][(pc # "done" /\ pc' = "done") =>
             (result'.success <=>
                 /\ pc = "wait"
                 /\ call.swap_hash \in SwapTxs
                 /\ txs[call.swap_hash].mined
                 /\ txs[call.swap_hash].status = 1)]_vars
    /\ [](result.success =>
             /\ pc = "done"
             /\ result.tx_hash = call.swap_hash /\ result.tx_hash # 0
             /\ txs[result.tx_hash].status = 1
             /\ result.gas_used = txs[result.tx_hash].gas_used
             /\ result.amount_in = call.amount
             /\ result.amount_out = [raw |-> call.expected_out, decimals |-> call.decimals_out]
             /\ call.expected_out \in QuoteOuts
             /\ call.decimals_out = (IF call.op = "swap" THEN DecimalsOf(call.token_out_id)
                                     ELSE IF call.op = "swap_hbar_for_usdc" THEN USDC_DECIMALS
                                     ELSE WHBAR_DECIMALS)
             /\ result.error = "")
    /\ [](pc # "done" => result = NoResult)

C24_Witness ==
    /\ pc = "done"
    /\ result.success
    /\ call.op = "swap_hbar_for_usdc"
    /\ result.tx_hash = 1
    /\ txs[1].status = 1
    /\ result.gas_used \in GasUsages
    /\ result.amount_out = [raw |-> Big53, decimals |-> USDC_DECIMALS]

\* C25 (as claimed): a returned result has an empty tx_hash only if the invocation
\* broadcast no swap transaction: once the swap is broadcast the result carries its
\* hash, also when the wait for the receipt fails or times out.
C25_HashWhenBroadcast ==
    (pc = "done" /\ call.swap_hash # 0) => result.tx_hash = call.swap_hash

====
